---- MODULE Spec2Model ----
(***************************************************************************)
(* The parallel batch classification pipeline of                           *)
(* src/src/processors/high_performance_processor.py:                       *)
(*   classify_log_batch, classify_single_log_fallback (the dispatcher),    *)
(*   HighPerformanceLogProcessor.calculate_severity (the severity scorer), *)
(*   HighPerformanceLogProcessor.process_batch_parallel (the scheduler),   *)
(*   HighPerformanceLogProcessor.store_results_batch and                   *)
(*   process_large_dataset (storage and the notification trigger, with     *)
(*   the Slack and JIRA managers its threads call),                        *)
(* and EnhancedLogProcessor.calculate_severity of                          *)
(* src/src/processors/enhanced_processor.py.                               *)
(*                                                                         *)
(* Specifications: Spec (process_batch_parallel), SevSpec (the severity    *)
(* scorers alone), LdsSpec (process_large_dataset), EmbSpec (the two       *)
(* embedding paths), CacheSpec (threads sharing model_cache), RateSpec      *)
(* (alert threads sharing the Slack server's rate limiter).                *)
(*                                                                         *)
(* Conventions.  Python None in a numeric slot is the number None (-1);    *)
(* a key that a result dict does not have is the string Absent (method)    *)
(* or None (index).  Confidences and probabilities are in hundredths, so   *)
(* 0.55 is 55 and the comparisons keep their direction.  List positions    *)
(* are 1-based in the model; the 'index' field carries the 0-based value   *)
(* the code stores.  The field pos of a result is a history field: the     *)
(* 1-based position in the input list of the record the result was made    *)
(* for.  No code reads it.                                                 *)
(***************************************************************************)
EXTENDS Integers, Sequences, FiniteSets, TLC

\* ------------------------------------------------------------------ bounds
MaxLogs == 2
MaxBatchSize == 2
MaxWorkers == 2
MaxThreads == 2
MaxClock == 6

\* --------------------------------------------------------------- constants
None == -1
Absent == "<absent>"
Raise == "<raise>"
NoMatch == "<None>"
NA == "<n/a>"

LegacyCRM == "LegacyCRM"
BackupText == "Backup completed successfully."
ServerText == "Server A790 was restarted unexpectedly during the process of data transfer"
NotAString == "<nan>"

\* The records a caller can put in the list: one for the remote classifier,
\* one that the pattern table matches, one that it does not match, and one
\* whose message is not a string (re.search raises TypeError on it).
Records ==
  { [source |-> LegacyCRM,   message |-> ServerText],
    [source |-> "WebServer", message |-> BackupText],
    [source |-> "WebServer", message |-> ServerText],
    [source |-> "WebServer", message |-> NotAString] }

\* Top class probabilities the stub model can give (hundredths).
ProbSet == {40, 95}
ConfidenceFloor == 55
FallbackConfidence == 80

\* The progress observers a caller can supply: none, one that returns from
\* every call, one that raises from every call.
CallbackKinds == {"none", "returns", "raises"}

\* What loading the models does: "loads" at construction; "recovers": fails
\* at construction and loads when a worker calls initialize_models again;
\* "fails" every time.
LoaderKinds == {"loads", "recovers", "fails"}

\* What one llm_classify call can do: return a category or raise.
LlmOutcomes == {"Security Alert", Raise}

VARIABLES
  logs,            \* argument: the input list of (source, message)
  batch_size,      \* self.batch_size
  max_workers,     \* self.max_workers
  progress_callback, \* the observer supplied: none, one that returns, one that raises
  svm_prob,        \* the model's top class probability for an unmatched text
  model_loader,    \* what loading the models does: see LoaderKinds
  initialized,     \* model_cache.initialized
  pc,              \* position of process_batch_parallel
  batches,         \* the local list batches
  status,          \* per chunk: queued, running, done, collected
  future,          \* per chunk: outcome of classify_log_batch
  results,         \* the local list results
  completed_logs,  \* the local counter
  reports,         \* history: the calls made to progress_callback
  calls,           \* history: per input position, the classifiers it was passed to
  ret,             \* the list returned
  sev,             \* the severity scorer under test (specification SevSpec)
  store_in_db,     \* argument of process_large_dataset
  use_database,    \* self.use_database
  bulk_insert,     \* what batch_db_service.bulk_insert_log_events does: inserts, raises
  enable_slack,    \* self.enable_slack
  enable_jira,     \* self.enable_jira
  ld_pc,           \* position of process_large_dataset
  db,              \* the storage: calls made to bulk_insert_log_events, rows held
  processing_stats, \* the local dict processing_stats
  high_severity_count, \* the local counter; None while the name is unbound
  result,          \* the local loop variable result: a position of the list, 0 unbound
  loop_at,         \* how many results the loop of line 530 has taken
  threading,       \* the local name threading is bound (line 545 has run)
  tasks,           \* the background threads started, in order
  computed,        \* history: the list as process_batch_parallel returned it
  emb,             \* the embedding paths under test (specification EmbSpec)
  cache,           \* model_cache and the threads using it (specification CacheSpec)
  limiter          \* the Slack server's rate limiter and its callers (specification RateSpec)

\* The state of process_large_dataset after process_batch_parallel.
lds_vars == << store_in_db, use_database, bulk_insert, enable_slack, enable_jira, ld_pc, db,
               processing_stats, high_severity_count, result, loop_at, threading, tasks,
               computed >>

\* The shared objects the worker and alert threads use.
side_vars == << cache, limiter >>

vars == << logs, batch_size, max_workers, progress_callback, svm_prob, model_loader, initialized,
           pc, batches, status, future, results, completed_logs, reports,
           calls, ret, sev, lds_vars, emb, side_vars >>

pipeline_vars == << logs, batch_size, max_workers, progress_callback, svm_prob,
                    model_loader, initialized, pc, batches, status, future, results,
                    completed_logs, reports, calls, ret >>

\* ------------------------------------------------------- sequence helpers
Range(s) == { s[k] : k \in 1..Len(s) }

Indices(s) == [k \in 1..Len(s) |-> k]

Min(S) == CHOOSE x \in S : \A y \in S : x <= y

LogLists == UNION { [1..n -> Records] : n \in 0..MaxLogs }

\* ------------------------------------------------------------ classifiers
\* regex_classify: the label of the first matching pattern, None when no
\* pattern matches; re.search raises on a message that is not a string.
regex_classify(log_message) ==
  CASE log_message = BackupText -> "System Notification"
    [] log_message = NotAString -> Raise
    [] OTHER -> NoMatch

\* svm_model.predict_proba / predict of the stub model, per message.
max_prob(log_message) == svm_prob

predictions(log_message) == "Critical Error"

\* bert_classify with the floor itself counted as too low.
bert_classify_inclusive(log_message) ==
  IF max_prob(log_message) <= ConfidenceFloor
    THEN "Unclassified"
    ELSE predictions(log_message)

\* bert_classify: "Unclassified" below the floor, else the predicted label.
bert_classify(log_message) ==
  IF max_prob(log_message) < ConfidenceFloor
    THEN "Unclassified"
    ELSE predictions(log_message)

\* ---------------------------------------------------------------- severity
severity_mapping(classification) ==
  CASE classification = "Security Alert" -> 9
    [] classification = "Critical Error" -> 8
    [] classification = "Workflow Error" -> 7
    [] classification = "System Notification" -> 6
    [] classification = "HTTP Status" -> 4
    [] classification = "Resource Usage" -> 3
    [] classification = "User Action" -> 2
    [] classification = "Deprecation Warning" -> 2
    [] classification = "Unclassified" -> 1
    [] OTHER -> 1

IMin(a, b) == IF a <= b THEN a ELSE b

IMax(a, b) == IF a >= b THEN a ELSE b

calculate_severity_nofloor(classification, confidence_score) ==
  LET base_severity == severity_mapping(classification)
  IN  IF confidence_score # None
        THEN IF confidence_score > 90 THEN IMin(10, base_severity + 1)
             ELSE IF confidence_score < 60 THEN base_severity - 1
             ELSE base_severity
        ELSE base_severity

calculate_severity_ge(classification, confidence_score) ==
  LET base_severity == severity_mapping(classification)
  IN  IF confidence_score # None
        THEN IF confidence_score >= 90 THEN IMin(10, base_severity + 1)
             ELSE IF confidence_score < 60 THEN IMax(1, base_severity - 1)
             ELSE base_severity
        ELSE base_severity

\* HighPerformanceLogProcessor.calculate_severity
calculate_severity(classification, confidence_score) ==
  LET base_severity == severity_mapping(classification)
  IN  IF confidence_score # None
        THEN IF confidence_score > 90 THEN IMin(10, base_severity + 1)
             ELSE IF confidence_score < 60 THEN IMax(1, base_severity - 1)
             ELSE base_severity
        ELSE base_severity

enhanced_severity_mapping(classification) ==
  CASE classification = "Security Alert" -> 9
    [] classification = "Critical Error" -> 8
    [] classification = "Workflow Error" -> 7
    [] classification = "System Notification" -> 6
    [] classification = "HTTP Status" -> 4
    [] classification = "Resource Usage" -> 3
    [] classification = "User Action" -> 2
    [] classification = "Deprecation Warning" -> 2
    [] classification = "Unclassified" -> 1
    [] OTHER -> 1

\* EnhancedLogProcessor.calculate_severity
enhanced_calculate_severity(classification, confidence_score) ==
  LET base_severity == enhanced_severity_mapping(classification)
  IN  IF confidence_score # None
        THEN IF confidence_score > 90 THEN IMin(10, base_severity + 1)
             ELSE IF confidence_score < 60 THEN IMax(1, base_severity - 1)
             ELSE base_severity
        ELSE base_severity

\* ------------------------------------------------------------ result dicts
Result(source, message, classification, confidence_score, method, index, severity_score, error) ==
  [ source |-> source, message |-> message,
    classification |-> classification,
    confidence_score |-> confidence_score,
    method |-> method, index |-> index,
    severity_score |-> severity_score, error |-> error, pos |-> 0 ]

\* results.sort(key=lambda x: x.get('index', 0)): the key of a result.
IndexKey(r) == IF r.index = None THEN 0 ELSE r.index

\* list.sort is stable: an element goes after the elements whose key is
\* smaller or equal.
InsertByIndex(sorted, r) ==
  LET n == Cardinality({ k \in 1..Len(sorted) : IndexKey(sorted[k]) <= IndexKey(r) })
  IN  SubSeq(sorted, 1, n) \o << r >> \o SubSeq(sorted, n + 1, Len(sorted))

RECURSIVE SortByIndex(_)
SortByIndex(s) ==
  IF s = << >> THEN << >>
  ELSE InsertByIndex(SortByIndex(SubSeq(s, 1, Len(s) - 1)), s[Len(s)])

\* The history field pos: k is the position of the record the result is for.
At(r, k) == [r EXCEPT !.pos = k]

\* ------------------------------------------------- single-record fallback
ErrorResult(source, log_message) ==
  Result(source, log_message, "Unclassified", None, "error", None, None, TRUE)

\* classify_single_log_fallback without the test on the source.
classify_single_log_fallback_noroute(source, log_message, llm_o, bert_o) ==
  LET regex_result == regex_classify(log_message)
  IN  IF regex_result = Raise
        THEN [ res |-> ErrorResult(source, log_message), calls |-> << "regex" >> ]
      ELSE IF regex_result # NoMatch
        THEN [ res |-> Result(source, log_message, regex_result, None, "fallback", None, None, FALSE),
               calls |-> << "regex" >> ]
      ELSE [ res |-> IF bert_o = Raise
                       THEN ErrorResult(source, log_message)
                       ELSE Result(source, log_message, bert_classify(log_message),
                                   FallbackConfidence, "fallback", None, None, FALSE),
             calls |-> << "regex", "bert" >> ]

\* classify_single_log_fallback.  llm_o and bert_o are what the remote call
\* and the bert_classify call do if they are made (a label / "ok", or Raise).
\* res is the dict returned, calls the classifiers the record was passed to.
classify_single_log_fallback(source, log_message, llm_o, bert_o) ==
  IF source = LegacyCRM
    THEN [ res |-> IF llm_o = Raise
                     THEN ErrorResult(source, log_message)
                     ELSE Result(source, log_message, llm_o, None, "fallback", None, None, FALSE),
           calls |-> << "llm" >> ]
    ELSE LET regex_result == regex_classify(log_message)
         IN  IF regex_result = Raise
               THEN [ res |-> ErrorResult(source, log_message), calls |-> << "regex" >> ]
             ELSE IF regex_result # NoMatch
               THEN [ res |-> Result(source, log_message, regex_result, None, "fallback", None, None, FALSE),
                      calls |-> << "regex" >> ]
             ELSE [ res |-> IF bert_o = Raise
                              THEN ErrorResult(source, log_message)
                              ELSE Result(source, log_message, bert_classify(log_message),
                                          FallbackConfidence, "fallback", None, None, FALSE),
                    calls |-> << "regex", "bert" >> ]

\* ------------------------------------------------------- batch dispatcher
\* The three groups of classify_log_batch, as lists of positions in the chunk.
llm_logs(log_batch) ==
  SelectSeq(Indices(log_batch), LAMBDA k : log_batch[k].source = LegacyCRM)

regex_matched(log_batch) ==
  SelectSeq(Indices(log_batch),
            LAMBDA k : /\ log_batch[k].source # LegacyCRM
                       /\ regex_classify(log_batch[k].message) \notin {NoMatch, Raise})

bert_logs(log_batch) ==
  SelectSeq(Indices(log_batch),
            LAMBDA k : /\ log_batch[k].source # LegacyCRM
                       /\ regex_classify(log_batch[k].message) = NoMatch)

\* Positions where the first loop's regex_classify call raises.
regex_raises(log_batch) ==
  { k \in 1..Len(log_batch) : /\ log_batch[k].source # LegacyCRM
                              /\ regex_classify(log_batch[k].message) = Raise }

regex_results(log_batch) ==
  LET g == regex_matched(log_batch)
  IN  [ j \in 1..Len(g) |->
          LET k == g[j]
          IN  At(Result(log_batch[k].source, log_batch[k].message,
                        regex_classify(log_batch[k].message), None, "regex", k - 1, None, FALSE), k) ]

\* bert_results that marks the whole group as failed when the batched call
\* raises, without the per-record fallback.
bert_results_mark_error(log_batch, o) ==
  LET g == bert_logs(log_batch)
  IN  [ j \in 1..Len(g) |->
          LET k == g[j]
              src == log_batch[k].source
              msg == log_batch[k].message
          IN  IF ~o.batch_raise
                THEN At(Result(src, msg,
                               IF max_prob(msg) < ConfidenceFloor THEN "Unclassified" ELSE predictions(msg),
                               max_prob(msg), "bert", k - 1, None, FALSE), k)
                ELSE At([ ErrorResult(src, msg) EXCEPT !.index = k - 1 ], k) ]

\* bert_results with the floor itself counted as too low.
bert_results_inclusive(log_batch, o) ==
  LET g == bert_logs(log_batch)
  IN  [ j \in 1..Len(g) |->
          LET k == g[j]
              src == log_batch[k].source
              msg == log_batch[k].message
          IN  IF ~o.batch_raise
                THEN At(Result(src, msg,
                               IF max_prob(msg) <= ConfidenceFloor THEN "Unclassified" ELSE predictions(msg),
                               max_prob(msg), "bert", k - 1, None, FALSE), k)
                ELSE At([ classify_single_log_fallback(src, msg, o.llm[k], o.single[k]).res
                            EXCEPT !.index = k - 1 ], k) ]

\* The batched embedding call and, when it raises, the per-record fallback.
bert_results(log_batch, o) ==
  LET g == bert_logs(log_batch)
  IN  [ j \in 1..Len(g) |->
          LET k == g[j]
              src == log_batch[k].source
              msg == log_batch[k].message
          IN  IF ~o.batch_raise
                THEN At(Result(src, msg,
                               IF max_prob(msg) < ConfidenceFloor THEN "Unclassified" ELSE predictions(msg),
                               max_prob(msg), "bert", k - 1, None, FALSE), k)
                ELSE At([ classify_single_log_fallback(src, msg, o.llm[k], o.single[k]).res
                            EXCEPT !.index = k - 1 ], k) ]

\* llm_results whose loop stops at the first remote call that raises: the
\* records after it are marked as failed too.
llm_results_abort(log_batch, o) ==
  LET g == llm_logs(log_batch)
  IN  [ j \in 1..Len(g) |->
          LET k == g[j]
              src == log_batch[k].source
              msg == log_batch[k].message
          IN  IF \E i \in 1..j : o.llm[g[i]] = Raise
                THEN At(Result(src, msg, "Unclassified", None, "llm_error", k - 1, None, FALSE), k)
                ELSE At(Result(src, msg, o.llm[k], None, "llm", k - 1, None, FALSE), k) ]

\* The loop over llm_logs: one remote call per record, each in its own try.
llm_results(log_batch, o) ==
  LET g == llm_logs(log_batch)
  IN  [ j \in 1..Len(g) |->
          LET k == g[j]
              src == log_batch[k].source
              msg == log_batch[k].message
          IN  IF o.llm[k] = Raise
                THEN At(Result(src, msg, "Unclassified", None, "llm_error", k - 1, None, FALSE), k)
                ELSE At(Result(src, msg, o.llm[k], None, "llm", k - 1, None, FALSE), k) ]

\* dispatch_calls of a dispatcher that passes each unmatched record to the
\* embedding classifier on its own.
dispatch_calls_per_record(log_batch, o, k) ==
  LET bad == regex_raises(log_batch)
  IN  IF k \in Range(llm_logs(log_batch))
        THEN IF bad = {} THEN << "llm" >> ELSE << >>
      ELSE IF bad # {}
        THEN IF k <= Min(bad) THEN << "regex" >> ELSE << >>
      ELSE IF k \in Range(bert_logs(log_batch))
        THEN << "regex", "bert" >>
      ELSE << "regex" >>

\* History: the classifiers record k of the chunk is passed to on the path
\* where the models are loaded.
dispatch_calls(log_batch, o, k) ==
  LET bad == regex_raises(log_batch)
      src == log_batch[k].source
      msg == log_batch[k].message
  IN  IF k \in Range(llm_logs(log_batch))
        THEN IF bad = {} THEN << "llm" >> ELSE << >>
      ELSE IF bad # {}
        THEN IF k <= Min(bad) THEN << "regex" >> ELSE << >>
      ELSE IF k \in Range(bert_logs(log_batch))
        THEN << "regex", "bert_batch" >>
             \o (IF o.batch_raise
                   THEN classify_single_log_fallback(src, msg, o.llm[k], o.single[k]).calls
                   ELSE << >>)
      ELSE << "regex" >>

\* classify_log_batch without the sort of line 184: the groups are returned
\* in the order they were produced.
classify_log_batch_nosort(log_batch, was_initialized, o) ==
  LET n == Len(log_batch)
      single(k) == classify_single_log_fallback(log_batch[k].source, log_batch[k].message,
                                                o.llm[k], o.single[k])
  IN  IF ~(was_initialized \/ o.load_ok)
        THEN [ raised |-> FALSE,
               results |-> [ k \in 1..n |-> At(single(k).res, k) ],
               calls |-> [ k \in 1..n |-> single(k).calls ] ]
      ELSE IF regex_raises(log_batch) # {}
        THEN [ raised |-> TRUE,
               results |-> << >>,
               calls |-> [ k \in 1..n |-> dispatch_calls(log_batch, o, k) ] ]
      ELSE [ raised |-> FALSE,
             results |-> regex_results(log_batch) \o bert_results(log_batch, o)
                           \o llm_results(log_batch, o),
             calls |-> [ k \in 1..n |-> dispatch_calls(log_batch, o, k) ] ]

\* classify_log_batch on one chunk.  was_initialized is model_cache.initialized
\* on entry; o says what the environment does: whether initialize_models
\* manages to load, whether the batched embedding call raises, and what each
\* remote and single-item embedding call does.
classify_log_batch(log_batch, was_initialized, o) ==
  LET n == Len(log_batch)
      single(k) == classify_single_log_fallback(log_batch[k].source, log_batch[k].message,
                                                o.llm[k], o.single[k])
  IN  IF ~(was_initialized \/ o.load_ok)
        THEN [ raised |-> FALSE,
               results |-> [ k \in 1..n |-> At(single(k).res, k) ],
               calls |-> [ k \in 1..n |-> single(k).calls ] ]
      ELSE IF regex_raises(log_batch) # {}
        THEN [ raised |-> TRUE,
               results |-> << >>,
               calls |-> [ k \in 1..n |-> dispatch_calls(log_batch, o, k) ] ]
      ELSE [ raised |-> FALSE,
             results |-> SortByIndex(regex_results(log_batch) \o bert_results(log_batch, o)
                                       \o llm_results(log_batch, o)),
             calls |-> [ k \in 1..n |-> dispatch_calls(log_batch, o, k) ] ]

\* What the environment can do during one classify_log_batch call.  Choices
\* the call never looks at are fixed, so that one behaviour of the
\* environment is one oracle.
Oracles(log_batch, was_initialized) ==
  LET n == Len(log_batch)
      bert == Range(bert_logs(log_batch))
      llm == Range(llm_logs(log_batch))
  IN  { o \in [ load_ok : {~was_initialized /\ model_loader = "recovers"},
                batch_raise : BOOLEAN,
                llm : { f \in [1..n -> LlmOutcomes \cup {NA}] :
                          \A k \in 1..n : (f[k] = NA) <=> (k \notin llm) },
                single : { f \in [1..n -> {"ok", Raise, NA}] :
                             \A k \in 1..n : (f[k] = NA) <=> (k \notin bert) } ] :
          LET loaded == was_initialized \/ o.load_ok
              batched == loaded /\ regex_raises(log_batch) = {} /\ bert # {}
          IN  /\ o.batch_raise => batched
              /\ (batched /\ ~o.batch_raise) => \A k \in bert : o.single[k] = "ok"
              /\ (loaded /\ regex_raises(log_batch) # {}) =>
                    /\ \A k \in bert : o.single[k] = "ok"
                    /\ \A k \in llm : o.llm[k] = "Security Alert" }

NoOracle == [ load_ok |-> FALSE, batch_raise |-> FALSE, llm |-> << >>, single |-> << >> ]

NoFuture == [ raised |-> FALSE, results |-> << >>, oracle |-> NoOracle ]

\* ------------------------------------------------------ parallel scheduler
\* MakeBatches with a slice that is one element too long.
MakeBatches_overlap(all_logs, size) ==
  [ c \in 1..((Len(all_logs) + size - 1) \div size) |->
      SubSeq(all_logs, (c - 1) * size + 1, IMin(c * size + 1, Len(all_logs))) ]

\* for i in range(0, len(logs), batch_size): batches.append(logs[i:i+batch_size])
MakeBatches(all_logs, size) ==
  [ c \in 1..((Len(all_logs) + size - 1) \div size) |->
      SubSeq(all_logs, (c - 1) * size + 1, IMin(c * size, Len(all_logs))) ]

\* History: the number of input records in the chunks before chunk c.
Offset(c) == (c - 1) * batch_size

\* The error results added for a failed batch.
FallbackEntries(batch, off) ==
  [ k \in 1..Len(batch) |->
      At(Result(batch[k].source, batch[k].message, "Unclassified", None, Absent, None, 1, TRUE),
         off + k) ]

\* The loop adding the severity to each result of a completed batch.
WithSeverity(batch_results) ==
  [ j \in 1..Len(batch_results) |->
      [ batch_results[j] EXCEPT
          !.severity_score = calculate_severity(batch_results[j].classification,
                                                batch_results[j].confidence_score) ] ]

\* The progress counter set to the size of the batch instead of added to.
NextCompleted_reset(completed, batch_results) == Len(batch_results)

\* completed_logs += len(batch_results)
NextCompleted(completed, batch_results) == completed + Len(batch_results)

Chunks == DOMAIN status

\* The stub models worth telling apart for an input: the model's output is
\* read only for a record that reaches the embedding classifier.
StubProbs(all_logs) ==
  IF \E k \in 1..Len(all_logs) : /\ all_logs[k].source # LegacyCRM
                                  /\ regex_classify(all_logs[k].message) = NoMatch
    THEN ProbSet
    ELSE {ConfidenceFloor}

\* The severity scorers under test: an input and the value each processor's
\* calculate_severity returned for it (None: not called yet).
SevOff == [ phase |-> "off", classification |-> "", confidence_score |-> None,
            high_performance |-> None, enhanced |-> None ]

\* The dict {}.
EmptyDict == [ empty |-> TRUE ]

NoDb == [ calls |-> 0, rows |-> << >>, failed |-> FALSE ]

\* process_large_dataset not called.
LdsOff ==
  /\ store_in_db = FALSE
  /\ use_database = FALSE
  /\ bulk_insert = "inserts"
  /\ enable_slack = FALSE
  /\ enable_jira = FALSE
  /\ ld_pc = "off"
  /\ db = NoDb
  /\ processing_stats = EmptyDict
  /\ high_severity_count = None
  /\ result = 0
  /\ loop_at = 0
  /\ threading = FALSE
  /\ tasks = << >>
  /\ computed = << >>

\* The embedding paths not under test.
EmbOff == [ phase |-> "off", texts |-> << >>, batched |-> << >>, single |-> << >>,
            batched_done |-> FALSE, single_done |-> FALSE ]

\* No thread uses model_cache; no thread uses the rate limiter.
CacheOff == [ phase |-> "off" ]

LimiterOff == [ phase |-> "off" ]

SideOff == cache = CacheOff /\ limiter = LimiterOff

Init ==
  /\ logs \in LogLists
  /\ batch_size \in 1..MaxBatchSize
  /\ max_workers \in 1..MaxWorkers
  /\ progress_callback \in CallbackKinds
  /\ svm_prob \in StubProbs(logs)
  /\ model_loader \in LoaderKinds
  /\ initialized = (model_loader = "loads")
  /\ pc = "start"
  /\ batches = << >>
  /\ status = << >>
  /\ future = << >>
  /\ results = << >>
  /\ completed_logs = 0
  /\ reports = << >>
  /\ calls = [ p \in 1..Len(logs) |-> << >> ]
  /\ ret = << >>
  /\ sev = SevOff
  /\ LdsOff
  /\ emb = EmbOff
  /\ SideOff

\* A pool without a thread limit: every submitted batch runs at once.
FirstRunning_all(n) == 1..n

\* The batches a pool of max_workers threads runs at once when n batches are
\* queued in order: each thread takes the oldest queued batch.
FirstRunning(n) == 1..IMin(max_workers, n)

\* process_batch_parallel up to the submission of all batches; an empty list
\* returns at once.  executor.submit starts a thread per batch until the pool
\* has max_workers threads; the later batches wait in the queue.
Submit ==
  /\ pc = "start"
  /\ IF logs = << >>
       THEN /\ pc' = "returned"
            /\ ret' = << >>
            /\ UNCHANGED << batches, status, future >>
       ELSE /\ pc' = "collecting"
            /\ batches' = MakeBatches(logs, batch_size)
            /\ status' = [ c \in DOMAIN MakeBatches(logs, batch_size) |->
                             IF c \in FirstRunning(Len(MakeBatches(logs, batch_size)))
                               THEN "running" ELSE "queued" ]
            /\ future' = [ c \in DOMAIN MakeBatches(logs, batch_size) |-> NoFuture ]
            /\ UNCHANGED ret
  /\ UNCHANGED << logs, batch_size, max_workers, progress_callback, svm_prob, model_loader, initialized,
                  results, completed_logs, reports, calls, sev, lds_vars, emb, side_vars >>

\* A pool thread that ends after its first batch instead of taking the next
\* queued one.
AfterFinish_nonext(c) == [ d \in Chunks |-> IF d = c THEN "done" ELSE status[d] ]

\* The pool thread's step for the batch it took: status after batch c is
\* done and the thread has taken the oldest queued batch, if there is one.
AfterFinish(c) ==
  LET queued == { d \in Chunks : status[d] = "queued" }
  IN  [ d \in Chunks |->
          IF d = c THEN "done"
          ELSE IF queued # {} /\ d = Min(queued) THEN "running"
          ELSE status[d] ]

\* A pool thread runs classify_log_batch on its batch, the future completes
\* and the thread goes on to the next queued batch.
FinishChunk(c) ==
  /\ pc = "collecting"
  /\ c \in Chunks
  /\ status[c] = "running"
  /\ \E o \in Oracles(batches[c], initialized) :
       LET out == classify_log_batch(batches[c], initialized, o)
       IN  /\ future' = [future EXCEPT ![c] =
                           [ raised |-> out.raised,
                             results |-> [ j \in 1..Len(out.results) |->
                                             At(out.results[j], Offset(c) + out.results[j].pos) ],
                             oracle |-> o ]]
           /\ calls' = [ p \in DOMAIN calls |->
                           IF p \in (Offset(c) + 1)..(Offset(c) + Len(batches[c]))
                             THEN calls[p] \o out.calls[p - Offset(c)]
                             ELSE calls[p] ]
           /\ initialized' = (initialized \/ o.load_ok)
  /\ status' = AfterFinish(c)
  /\ UNCHANGED << logs, batch_size, max_workers, progress_callback, svm_prob, model_loader,
                  pc, batches, results, completed_logs, reports, ret, sev, lds_vars, emb, side_vars >>

\* One round of the as_completed loop, for a future that has completed.
Collect(c) ==
  /\ pc = "collecting"
  /\ c \in Chunks
  /\ status[c] = "done"
  /\ status' = [status EXCEPT ![c] = "collected"]
  /\ IF future[c].raised
       THEN /\ results' = results \o FallbackEntries(batches[c], Offset(c))
            /\ UNCHANGED << completed_logs, reports >>
       ELSE /\ completed_logs' = NextCompleted(completed_logs, future[c].results)
            /\ reports' = IF progress_callback # "none"
                            THEN Append(reports, << completed_logs', Len(logs) >>)
                            ELSE reports
            /\ results' = results \o WithSeverity(future[c].results)
                            \o (IF progress_callback = "raises"
                                  THEN FallbackEntries(batches[c], Offset(c))
                                  ELSE << >>)
  /\ UNCHANGED << logs, batch_size, max_workers, progress_callback, svm_prob, model_loader, initialized,
                  pc, batches, future, calls, ret, sev, lds_vars, emb, side_vars >>

\* All futures are collected: the final sort and the return.
Return ==
  /\ pc = "collecting"
  /\ \A c \in Chunks : status[c] = "collected"
  /\ ret' = SortByIndex(results)
  /\ pc' = "returned"
  /\ UNCHANGED << logs, batch_size, max_workers, progress_callback, svm_prob, model_loader, initialized,
                  batches, status, future, results, completed_logs, reports, calls, sev, lds_vars, emb, side_vars >>

Next ==
  \/ Submit
  \/ \E c \in 1..MaxLogs : FinishChunk(c)
  \/ \E c \in 1..MaxLogs : Collect(c)
  \/ Return

Spec == Init /\ [][Next]_vars


\* ------------------------------------------------ the scorers on their own
\* Labels given to calculate_severity: the keys of the table and one that
\* is not a key.
SevLabels ==
  { "Security Alert", "Critical Error", "Workflow Error", "System Notification",
    "HTTP Status", "Resource Usage", "User Action", "Deprecation Warning",
    "Unclassified", "Some Other Label" }

\* Confidences given to calculate_severity (hundredths), around both
\* thresholds, and None.
SevConfidences == { None, 0, 40, 59, 60, 61, 80, 89, 90, 91, 100 }

SevInit ==
  /\ logs = << >>
  /\ batch_size = 1
  /\ max_workers = 1
  /\ progress_callback = "none"
  /\ svm_prob = ConfidenceFloor
  /\ model_loader = "loads"
  /\ initialized = TRUE
  /\ pc = "off"
  /\ batches = << >>
  /\ status = << >>
  /\ future = << >>
  /\ results = << >>
  /\ completed_logs = 0
  /\ reports = << >>
  /\ calls = << >>
  /\ ret = << >>
  /\ \E l \in SevLabels, c \in SevConfidences :
       sev = [ phase |-> "scoring", classification |-> l, confidence_score |-> c,
               high_performance |-> None, enhanced |-> None ]
  /\ LdsOff
  /\ emb = EmbOff
  /\ SideOff

ScoreHighPerformance ==
  /\ sev.phase = "scoring"
  /\ sev.high_performance = None
  /\ sev' = [sev EXCEPT !.high_performance =
                          calculate_severity(sev.classification, sev.confidence_score)]
  /\ UNCHANGED << pipeline_vars, lds_vars, emb, side_vars >>

ScoreEnhanced ==
  /\ sev.phase = "scoring"
  /\ sev.enhanced = None
  /\ sev' = [sev EXCEPT !.enhanced =
                          enhanced_calculate_severity(sev.classification, sev.confidence_score)]
  /\ UNCHANGED << pipeline_vars, lds_vars, emb, side_vars >>

SevNext == ScoreHighPerformance \/ ScoreEnhanced

SevSpec == SevInit /\ [][SevNext]_vars

\* ------------------------------------------------- process_large_dataset
\* Length of the part of a result list that is drawn freely.
MaxHead == 1

\* 'Security' in classification, 'Critical' in classification, over the
\* labels of the model.
ContainsSecurity(classification) == classification \in {"Security Alert"}

ContainsCritical(classification) == classification \in {"Critical Error"}

\* A result as process_batch_parallel returns it for a record that was the
\* first of its batch: the classifier's fields and the severity added.
Classified(source, message, classification, confidence_score, method) ==
  Result(source, message, classification, confidence_score, method, 0,
         calculate_severity(classification, confidence_score), FALSE)

\* Results the pipeline returns: severity 9 with a marker, severity 8
\* without one (an embedding model with a "Workflow Error" class), severity
\* 7 with a marker, severity 6 and severity 1.
SecurityResult == Classified(LegacyCRM, ServerText, "Security Alert", None, "llm")

WorkflowResult == Classified("WebServer", ServerText, "Workflow Error", 95, "bert")

CriticalLowResult == Classified("WebServer", ServerText, "Critical Error", 57, "bert")

NotificationResult == Classified("WebServer", BackupText, "System Notification", None, "regex")

UnclassifiedResult == Classified("WebServer", ServerText, "Unclassified", 40, "bert")

HeadKinds == { SecurityResult, WorkflowResult, CriticalLowResult, UnclassifiedResult }

Repeat(r, n) == [ k \in 1..n |-> r ]

\* The lists process_batch_parallel hands to the rest of
\* process_large_dataset: a short list of any kinds, alone or followed by
\* five results of severity 6, and two lists of a hundred results.
LdInputs ==
  { h \o p : h \in UNION { [1..n -> HeadKinds] : n \in 0..MaxHead },
             p \in { << >>, Repeat(NotificationResult, 5) } }
    \cup { Repeat(UnclassifiedResult, 100),
           << WorkflowResult >> \o Repeat(UnclassifiedResult, 99) }

\* The input list a result list was computed for.
LogsOf(rs) == [ k \in 1..Len(rs) |-> [source |-> rs[k].source, message |-> rs[k].message] ]

\* A background thread just started: its target, the position of the result
\* whose iteration started it (0 for the batch summary), and what it has
\* done: the dict it passed to the integration once it has run.
NoPayload == [ unread |-> TRUE ]

Task(target, i) ==
  [ target |-> target, started_for |-> i, state |-> "started",
    payload |-> NoPayload, outcome |-> "none" ]

LdsInit ==
  /\ computed \in LdInputs
  /\ logs = LogsOf(computed)
  /\ ret = << >>
  /\ batch_size = 1
  /\ max_workers = 1
  /\ progress_callback \in {"none", "returns"}
  /\ svm_prob = ConfidenceFloor
  /\ model_loader = "loads"
  /\ initialized = TRUE
  /\ pc = "start"
  /\ batches = << >>
  /\ status = << >>
  /\ future = << >>
  /\ results = << >>
  /\ completed_logs = 0
  /\ reports = << >>
  /\ calls = << >>
  /\ sev = SevOff
  /\ emb = EmbOff
  /\ SideOff
  /\ store_in_db \in BOOLEAN
  /\ use_database \in BOOLEAN
  /\ bulk_insert \in (IF store_in_db /\ use_database /\ computed # << >>
                        THEN {"inserts", "raises"} ELSE {"inserts"})
  /\ enable_slack \in BOOLEAN
  /\ enable_jira \in BOOLEAN
  /\ ld_pc = "process"
  /\ db = NoDb
  /\ processing_stats = EmptyDict
  /\ high_severity_count = None
  /\ result = 0
  /\ loop_at = 0
  /\ threading = FALSE
  /\ tasks = << >>

\* What no step of process_large_dataset or of its threads changes.
ld_frozen == << logs, batch_size, max_workers, progress_callback, svm_prob, model_loader,
                initialized, pc, batches, status, future, results, completed_logs, reports,
                calls, sev, emb, side_vars, store_in_db, use_database, bulk_insert, enable_slack,
                enable_jira, computed >>

\* The row store_results_batch prepares for a result.
log_item(r) ==
  [ source |-> r.source, message |-> r.message, classification |-> r.classification,
    confidence_score |-> r.confidence_score, severity_score |-> r.severity_score,
    method |-> IF r.method = Absent THEN "unknown" ELSE r.method ]

\* Line 466: the call of process_batch_parallel, in one step.  For an empty
\* list it returns at lines 323-324 before anything is set up; otherwise it
\* cuts the batches, reports each of them to the observer and returns the
\* list computed.  The workers' own state is not part of this
\* specification.
ProcessLogs ==
  /\ ld_pc = "process"
  /\ ld_pc' = "store"
  /\ pc' = "returned"
  /\ IF logs = << >>
       THEN /\ ret' = << >>
            /\ UNCHANGED << batches, results, completed_logs, reports >>
       ELSE /\ batches' = MakeBatches(logs, batch_size)
            /\ results' = computed
            /\ completed_logs' = Len(logs)
            /\ reports' = IF progress_callback # "none"
                            THEN [ c \in 1..Len(MakeBatches(logs, batch_size)) |->
                                     << IMin(c * batch_size, Len(logs)), Len(logs) >> ]
                            ELSE reports
            /\ ret' = computed
  /\ UNCHANGED << logs, batch_size, max_workers, progress_callback, svm_prob, model_loader,
                  initialized, status, future, calls, sev, emb, side_vars, store_in_db,
                  use_database, bulk_insert, enable_slack, enable_jira, computed, db,
                  processing_stats, high_severity_count, result, loop_at, threading, tasks >>

\* store_results_batch without the return of line 396 for an empty list.
store_results_batch_always(rs) ==
  IF ~use_database
    THEN db
  ELSE IF bulk_insert = "raises"
    THEN [ calls |-> db.calls + 1, rows |-> db.rows, failed |-> TRUE ]
  ELSE [ calls |-> db.calls + 1,
         rows |-> db.rows \o [ k \in 1..Len(rs) |-> log_item(rs[k]) ],
         failed |-> FALSE ]

\* store_results_batch: the storage after the call.  The whole body is in a
\* try whose handler prints the exception.
store_results_batch(rs) ==
  IF ~use_database \/ rs = << >>
    THEN db
  ELSE IF bulk_insert = "raises"
    THEN [ calls |-> db.calls + 1, rows |-> db.rows, failed |-> TRUE ]
  ELSE [ calls |-> db.calls + 1,
         rows |-> db.rows \o [ k \in 1..Len(rs) |-> log_item(rs[k]) ],
         failed |-> FALSE ]

\* A store step that gives up the results when the storage fails.
StoreResults_discard ==
  /\ ld_pc = "store"
  /\ db' = IF store_in_db /\ use_database THEN store_results_batch(ret) ELSE db
  /\ ret' = IF db'.failed THEN << >> ELSE ret
  /\ ld_pc' = "stats"
  /\ UNCHANGED << ld_frozen, processing_stats, high_severity_count, result, loop_at,
                  threading, tasks >>

\* Lines 468-470: the store step.
StoreResults ==
  /\ ld_pc = "store"
  /\ db' = IF store_in_db /\ use_database THEN store_results_batch(ret) ELSE db
  /\ ld_pc' = "stats"
  /\ UNCHANGED << ld_frozen, ret, processing_stats, high_severity_count, result, loop_at,
                  threading, tasks >>

\* Lines 475-519: the statistics.  A result of severity 8 or more is counted
\* as critical, else one of severity 6 or more as high.  All of lines
\* 477-603, the notifications included, is under "if results" (line 476):
\* an empty list leaves the dict empty and goes to the return.
Statistics ==
  /\ ld_pc = "stats"
  /\ IF ret # << >>
       THEN /\ high_severity_count' =
                 Cardinality({ k \in 1..Len(ret) : /\ ~(ret[k].severity_score >= 8)
                                                   /\ ret[k].severity_score >= 6 })
            /\ processing_stats' =
                 [ total_logs |-> Len(ret),
                   critical_count |->
                     Cardinality({ k \in 1..Len(ret) : ret[k].severity_score >= 8 }),
                   high_severity_count |-> high_severity_count' ]
            /\ result' = Len(ret)
       ELSE UNCHANGED << high_severity_count, processing_stats, result >>
  /\ ld_pc' = IF ret # << >> /\ (enable_slack \/ enable_jira) THEN "notify" ELSE "return"
  /\ UNCHANGED << ld_frozen, ret, db, loop_at, threading, tasks >>

\* The threads an iteration of the loop of line 530 starts for the result at
\* position i, twice over for the alert.
started_by_twice(i, bound) ==
  LET r == ret[i]
  IN  IF r.severity_score >= 8 /\ enable_slack
        THEN << Task("send_alert_bg", i), Task("send_alert_bg", i) >>
        ELSE << >>

\* The threads an iteration of the loop of line 530 starts for the result at
\* position i.  bound: the name threading is bound when line 568 is reached;
\* when it is not, line 568 raises UnboundLocalError, caught at line 573.
started_by(i, bound) ==
  LET r == ret[i]
      severity_score == r.severity_score
  IN  IF severity_score >= 8
        THEN (IF enable_slack THEN << Task("send_alert_bg", i) >> ELSE << >>)
             \o (IF /\ enable_jira
                    /\ \/ ContainsSecurity(r.classification)
                       \/ ContainsCritical(r.classification)
                       \/ severity_score >= 9
                    /\ bound
                   THEN << Task("create_incident_bg", i) >>
                   ELSE << >>)
        ELSE << >>

\* One iteration of the loop of lines 530-574.  import threading (line 545)
\* is in the branch of enable_slack: it binds the local name threading.
NotifyResult ==
  /\ ld_pc = "notify"
  /\ loop_at < Len(ret)
  /\ LET i == loop_at + 1
         bound == threading \/ (ret[i].severity_score >= 8 /\ enable_slack)
     IN  /\ loop_at' = i
         /\ result' = i
         /\ threading' = bound
         /\ tasks' = tasks \o started_by(i, bound)
  /\ UNCHANGED << ld_frozen, ret, ld_pc, db, processing_stats, high_severity_count >>

\* Lines 583-603, after the loop: the batch summary.  With threading
\* unbound line 594 raises, caught at line 599.
BatchSummary ==
  /\ ld_pc = "notify"
  /\ loop_at = Len(ret)
  /\ tasks' = IF /\ Len(ret) >= 100 \/ high_severity_count >= 5
                 /\ threading
                THEN Append(tasks, Task("send_batch_summary_bg", 0))
                ELSE tasks
  /\ ld_pc' = "return"
  /\ UNCHANGED << ld_frozen, ret, db, processing_stats, high_severity_count, result, loop_at,
                  threading >>

\* Line 605.
ReturnResults ==
  /\ ld_pc = "return"
  /\ ld_pc' = "returned"
  /\ UNCHANGED << ld_frozen, ret, db, processing_stats, high_severity_count, result, loop_at,
                  threading, tasks >>

\* The thread's record after it has run.
Ran(task, payload, outcome) ==
  [ task EXCEPT !.state = "finished", !.payload = payload, !.outcome = outcome ]

\* SlackIntegrationManager.notify_high_severity_log: what the call can do
\* with a dict.  Nothing is sent for a severity below 6; send_alert returns
\* or raises, and the exception is caught and printed.
notify_high_severity_log(log_data) ==
  IF enable_slack /\ log_data.severity_score >= 6
    THEN {"sent", "failed"}
    ELSE {"skipped"}

\* JIRAIntegrationManager.create_incident_from_log: what the call can do
\* with a dict.
create_incident_from_log(log_data) ==
  LET should_create == \/ log_data.severity_score >= 8
                       \/ ContainsSecurity(log_data.classification)
                       \/ ContainsCritical(log_data.classification)
  IN  IF enable_jira /\ should_create
        THEN {"sent", "failed"}
        ELSE {"skipped"}

\* SlackIntegrationManager.notify_batch_processing goes on to update the
\* dicts and send the summary: five results or more of severity 6 or more.
notify_batch_processing(rs, stats) ==
  /\ enable_slack
  /\ rs # << >>
  /\ stats # EmptyDict
  /\ Cardinality({ k \in 1..Len(rs) : rs[k].severity_score >= 6 }) >= 5

\* result.update({...}) of notify_batch_processing: results.copy() copies
\* the list, not the dicts, so the dict updated is the one in the list.
Updated(r) == r @@ [ batch_processing_time |-> "total_time", batch_throughput |-> "throughput" ]

\* The thread send_alert_bg: notify_log_alert(result), with result read
\* when the thread runs.
RunAlert(t) ==
  /\ t \in DOMAIN tasks
  /\ tasks[t].target = "send_alert_bg"
  /\ tasks[t].state = "started"
  /\ \E o \in notify_high_severity_log(ret[result]) :
       tasks' = [tasks EXCEPT ![t] = Ran(@, ret[result], o)]
  /\ UNCHANGED << ld_frozen, ret, ld_pc, db, processing_stats, high_severity_count, result,
                  loop_at, threading >>

\* The thread create_incident_bg: create_incident(result), with result read
\* when the thread runs.
RunIncident(t) ==
  /\ t \in DOMAIN tasks
  /\ tasks[t].target = "create_incident_bg"
  /\ tasks[t].state = "started"
  /\ \E o \in create_incident_from_log(ret[result]) :
       tasks' = [tasks EXCEPT ![t] = Ran(@, ret[result], o)]
  /\ UNCHANGED << ld_frozen, ret, ld_pc, db, processing_stats, high_severity_count, result,
                  loop_at, threading >>

\* The thread send_batch_summary_bg:
\* notify_batch_complete(results, processing_stats).
RunSummary(t) ==
  /\ t \in DOMAIN tasks
  /\ tasks[t].target = "send_batch_summary_bg"
  /\ tasks[t].state = "started"
  /\ IF notify_batch_processing(ret, processing_stats)
       THEN /\ ret' = [ k \in 1..Len(ret) |-> Updated(ret[k]) ]
            /\ \E o \in {"sent", "failed"} :
                 tasks' = [tasks EXCEPT ![t] = Ran(@, NoPayload, o)]
       ELSE /\ ret' = ret
            /\ tasks' = [tasks EXCEPT ![t] = Ran(@, NoPayload, "skipped")]
  /\ UNCHANGED << ld_frozen, ld_pc, db, processing_stats, high_severity_count, result,
                  loop_at, threading >>

LdsNext ==
  \/ ProcessLogs
  \/ StoreResults
  \/ Statistics
  \/ NotifyResult
  \/ BatchSummary
  \/ ReturnResults
  \/ \E t \in DOMAIN tasks : RunAlert(t)
  \/ \E t \in DOMAIN tasks : RunIncident(t)
  \/ \E t \in DOMAIN tasks : RunSummary(t)

LdsSpec == LdsInit /\ [][LdsNext]_vars

\* ---------------------------------------- the embedding paths on their own
\* Top class probabilities given to the two paths (hundredths), around the
\* floor and the fallback's fixed confidence.
EmbProbs == { 0, 40, 54, 55, 56, 80, 95, 100 }

\* Records that reach the embedding classifier: not from the remote
\* classifier's source, and no pattern matches the message.
EmbRecords ==
  { [source |-> "WebServer", message |-> ServerText],
    [source |-> "ModernHR",  message |-> ServerText] }

\* The classifier calls of a batch that all return.
AllReturn(log_batch) ==
  [ load_ok |-> TRUE, batch_raise |-> FALSE,
    llm |-> [ k \in 1..Len(log_batch) |-> NA ],
    single |-> [ k \in 1..Len(log_batch) |-> "ok" ] ]

EmbInit ==
  /\ logs = << >>
  /\ batch_size = 1
  /\ max_workers = 1
  /\ progress_callback = "none"
  /\ svm_prob \in EmbProbs
  /\ model_loader = "loads"
  /\ initialized = TRUE
  /\ pc = "off"
  /\ batches = << >>
  /\ status = << >>
  /\ future = << >>
  /\ results = << >>
  /\ completed_logs = 0
  /\ reports = << >>
  /\ calls = << >>
  /\ ret = << >>
  /\ sev = SevOff
  /\ LdsOff
  /\ SideOff
  /\ \E texts \in UNION { [1..n -> EmbRecords] : n \in 1..MaxLogs } :
       emb = [ phase |-> "classifying", texts |-> texts, batched |-> << >>, single |-> << >>,
               batched_done |-> FALSE, single_done |-> FALSE ]

\* The texts through the batched embedding call of classify_log_batch, with
\* the severity process_batch_parallel adds.
ClassifyBatched ==
  /\ emb.phase = "classifying"
  /\ ~emb.batched_done
  /\ emb' = [emb EXCEPT !.batched = WithSeverity(bert_results(emb.texts, AllReturn(emb.texts))),
                        !.batched_done = TRUE]
  /\ UNCHANGED << pipeline_vars, sev, lds_vars, side_vars >>

\* Each text alone through classify_single_log_fallback, which calls
\* bert_classify.
ClassifySingle ==
  /\ emb.phase = "classifying"
  /\ ~emb.single_done
  /\ emb' = [emb EXCEPT !.single =
                          [ k \in 1..Len(emb.texts) |->
                              classify_single_log_fallback(emb.texts[k].source,
                                                           emb.texts[k].message, NA, "ok").res ],
                        !.single_done = TRUE]
  /\ UNCHANGED << pipeline_vars, sev, lds_vars, side_vars >>

EmbNext == ClassifyBatched \/ ClassifySingle

EmbSpec == EmbInit /\ [][EmbNext]_vars

\* ------------------------------------------- threads sharing model_cache
\* Worker threads that each call classify_log_batch on the same batch while
\* model_cache is not yet initialized.  cache.at is each thread's position,
\* cache.lock the holder of ModelCache._lock (0: free), bert_model and
\* svm_model whether the attribute is set; attempts and loaded are history
\* (loads begun, loads that succeeded), out what each call returned.
Threads == 1..MaxThreads

NoOut == [ raised |-> FALSE, results |-> << >>, calls |-> << >> ]

\* The n-th load of the models fails: every load under "fails", the first
\* one under "recovers".
LoadFails(n) == model_loader = "fails" \/ (model_loader = "recovers" /\ n = 1)

\* An environment in which every remote and embedding call returns.
Returning(log_batch) ==
  [ load_ok |-> FALSE, batch_raise |-> FALSE,
    llm |-> [ k \in 1..Len(log_batch) |->
                IF k \in Range(llm_logs(log_batch)) THEN "Security Alert" ELSE NA ],
    single |-> [ k \in 1..Len(log_batch) |->
                   IF k \in Range(bert_logs(log_batch)) THEN "ok" ELSE NA ] ]

CacheInit ==
  /\ logs \in { b \in LogLists : Len(b) \in 1..2 }
  /\ batch_size = 1
  /\ max_workers = MaxThreads
  /\ progress_callback = "none"
  /\ svm_prob \in StubProbs(logs)
  /\ model_loader \in LoaderKinds
  /\ initialized = FALSE
  /\ pc = "off"
  /\ batches = << >>
  /\ status = << >>
  /\ future = << >>
  /\ results = << >>
  /\ completed_logs = 0
  /\ reports = << >>
  /\ calls = << >>
  /\ ret = << >>
  /\ sev = SevOff
  /\ LdsOff
  /\ emb = EmbOff
  /\ limiter = LimiterOff
  /\ cache = [ phase |-> "threads",
               at |-> [ t \in Threads |-> "entry" ],
               lock |-> 0,
               bert_model |-> FALSE,
               svm_model |-> FALSE,
               attempts |-> 0,
               loaded |-> 0,
               out |-> [ t \in Threads |-> NoOut ] ]

cache_frozen == << logs, batch_size, max_workers, progress_callback, svm_prob, model_loader,
                   pc, batches, status, future, results, completed_logs, reports, calls, ret,
                   sev, lds_vars, emb, limiter >>

Goes(t, to) == [cache EXCEPT !.at[t] = to]

\* Line 92 of classify_log_batch.
Entry(t) ==
  /\ cache.at[t] = "entry"
  /\ cache' = Goes(t, IF ~initialized THEN "first_check" ELSE "dispatch")
  /\ UNCHANGED << cache_frozen, initialized >>

\* Line 58 of initialize_models: the check outside the lock.
FirstCheck(t) ==
  /\ cache.at[t] = "first_check"
  /\ cache' = Goes(t, IF ~initialized THEN "acquire" ELSE "dispatch")
  /\ UNCHANGED << cache_frozen, initialized >>

\* Line 59: with self._lock.
Acquire(t) ==
  /\ cache.at[t] = "acquire"
  /\ cache.lock = 0
  /\ cache' = [cache EXCEPT !.at[t] = "second_check", !.lock = t]
  /\ UNCHANGED << cache_frozen, initialized >>

\* initialize_models without the check of line 60: whoever gets the lock
\* loads.
Recheck_always_load(t) ==
  /\ cache.at[t] = "second_check"
  /\ cache' = [cache EXCEPT !.at[t] = "load_bert", !.attempts = @ + 1]
  /\ UNCHANGED << cache_frozen, initialized >>

\* Line 60: the check inside the lock.
Recheck(t) ==
  /\ cache.at[t] = "second_check"
  /\ cache' = IF ~initialized
                THEN [cache EXCEPT !.at[t] = "load_bert", !.attempts = @ + 1]
                ELSE Goes(t, "release")
  /\ UNCHANGED << cache_frozen, initialized >>

\* A load that announces the models as soon as the first one is set.
LoadBert_announces(t) ==
  /\ cache.at[t] = "load_bert"
  /\ \/ /\ LoadFails(cache.attempts)
        /\ cache' = Goes(t, "except")
        /\ UNCHANGED initialized
     \/ /\ cache' = [cache EXCEPT !.at[t] = "load_svm", !.bert_model = TRUE]
        /\ initialized' = TRUE
  /\ UNCHANGED cache_frozen

\* Lines 63-67: the imports and self.bert_model = SentenceTransformer(...).
\* A load that fails raises here or at line 72.
LoadBert(t) ==
  /\ cache.at[t] = "load_bert"
  /\ \/ /\ LoadFails(cache.attempts)
        /\ cache' = Goes(t, "except")
     \/ cache' = [cache EXCEPT !.at[t] = "load_svm", !.bert_model = TRUE]
  /\ UNCHANGED << cache_frozen, initialized >>

\* Lines 70-72: self.svm_model = joblib.load(model_path).
LoadSvm(t) ==
  /\ cache.at[t] = "load_svm"
  /\ cache' = IF LoadFails(cache.attempts)
                THEN Goes(t, "except")
                ELSE [cache EXCEPT !.at[t] = "set_initialized", !.svm_model = TRUE]
  /\ UNCHANGED << cache_frozen, initialized >>

\* Line 74: self.initialized = True.
SetInitialized(t) ==
  /\ cache.at[t] = "set_initialized"
  /\ initialized' = TRUE
  /\ cache' = [cache EXCEPT !.at[t] = "release", !.loaded = @ + 1]
  /\ UNCHANGED cache_frozen

\* Lines 77-79: the handler sets self.initialized = False.
LoadFailed(t) ==
  /\ cache.at[t] = "except"
  /\ initialized' = FALSE
  /\ cache' = Goes(t, "release")
  /\ UNCHANGED cache_frozen

\* The end of the with block: the lock is released and initialize_models
\* returns.
Release(t) ==
  /\ cache.at[t] = "release"
  /\ cache' = [cache EXCEPT !.at[t] = "dispatch", !.lock = 0]
  /\ UNCHANGED << cache_frozen, initialized >>

\* Lines 95-186: the thread reads model_cache.initialized and classifies its
\* batch on the path it selects.
Dispatch(t) ==
  /\ cache.at[t] = "dispatch"
  /\ cache' = [cache EXCEPT !.at[t] = "done",
                            !.out[t] = classify_log_batch(logs, initialized, Returning(logs))]
  /\ UNCHANGED << cache_frozen, initialized >>

CacheNext ==
  \E t \in Threads :
    \/ Entry(t)
    \/ FirstCheck(t)
    \/ Acquire(t)
    \/ Recheck(t)
    \/ LoadBert(t)
    \/ LoadSvm(t)
    \/ SetInitialized(t)
    \/ LoadFailed(t)
    \/ Release(t)
    \/ Dispatch(t)

CacheSpec == CacheInit /\ [][CacheNext]_vars

\* ------------------------------- alert threads sharing the rate limiter
\* The alert threads of process_large_dataset each end in
\* SlackMCPServer.send_single_alert on the one server get_slack_server
\* returns.  limiter.clock is the time in minutes, last_alert_time the dict
\* (None: no entry for the key), at each thread's position, key and now its
\* locals; passed is history: the calls should_send_alert granted.
rate_limit_minutes == 5

AlertKeys == { "Security Alert_WebServer", "Workflow Error_WebServer" }

RateInit ==
  /\ logs = << >>
  /\ batch_size = 1
  /\ max_workers = 1
  /\ progress_callback = "none"
  /\ svm_prob = ConfidenceFloor
  /\ model_loader = "loads"
  /\ initialized = TRUE
  /\ pc = "off"
  /\ batches = << >>
  /\ status = << >>
  /\ future = << >>
  /\ results = << >>
  /\ completed_logs = 0
  /\ reports = << >>
  /\ calls = << >>
  /\ ret = << >>
  /\ sev = SevOff
  /\ LdsOff
  /\ emb = EmbOff
  /\ cache = CacheOff
  /\ limiter = [ phase |-> "threads",
                 clock |-> 0,
                 last_alert_time |-> [ k \in AlertKeys |-> None ],
                 at |-> [ t \in Threads |-> "idle" ],
                 key |-> [ t \in Threads |-> "" ],
                 now |-> [ t \in Threads |-> None ],
                 passed |-> << >> ]

rate_frozen == << pipeline_vars, sev, lds_vars, emb, cache >>

\* Line 203 of send_single_alert and line 64 of should_send_alert: the key
\* of the alert and now = datetime.now().
CallShouldSend(t) ==
  /\ limiter.at[t] = "idle"
  /\ \E k \in AlertKeys :
       limiter' = [limiter EXCEPT !.at[t] = "check", !.key[t] = k, !.now[t] = limiter.clock]
  /\ UNCHANGED rate_frozen

\* Lines 65-68: the call is denied when the key has an entry less than
\* rate_limit_minutes old.
CheckWindow(t) ==
  /\ limiter.at[t] = "check"
  /\ LET last == limiter.last_alert_time[limiter.key[t]]
     IN  limiter' = [limiter EXCEPT !.at[t] =
                       IF last # None /\ limiter.now[t] - last < rate_limit_minutes
                         THEN "denied" ELSE "set"]
  /\ UNCHANGED rate_frozen

\* Lines 70-71: self.last_alert_time[alert_key] = now; return True.
SetLastAlertTime(t) ==
  /\ limiter.at[t] = "set"
  /\ limiter' = [limiter EXCEPT !.at[t] = "granted",
                                !.last_alert_time[limiter.key[t]] = limiter.now[t],
                                !.passed = Append(@, [ key |-> limiter.key[t],
                                                       now |-> limiter.now[t] ])]
  /\ UNCHANGED rate_frozen

\* A minute passes.
Tick ==
  /\ limiter.phase = "threads"
  /\ limiter.clock < MaxClock
  /\ limiter' = [limiter EXCEPT !.clock = @ + 1]
  /\ UNCHANGED rate_frozen

RateNext ==
  \/ \E t \in Threads : CallShouldSend(t)
  \/ \E t \in Threads : CheckWindow(t)
  \/ \E t \in Threads : SetLastAlertTime(t)
  \/ Tick

RateSpec == RateInit /\ [][RateNext]_vars

\* ================================================================== claims
Returned == pc = "returned"

Finished(c) == status[c] \in {"done", "collected"}

\* The positions in the input list of the records of chunk c.
PositionsOf(c) == (Offset(c) + 1)..(Offset(c) + Len(batches[c]))

\* The places of the list s that hold a result made for input position p.
PlacesOf(s, p) == { i \in 1..Len(s) : s[i].pos = p }

NoChunkFailed == \A c \in Chunks : ~future[c].raised

\* C1: the list process_batch_parallel returns has, at every place i, the
\* source and the text of input[i], for any batch size, worker count and
\* order of completion.  (Stated for a run without progress observer.)
C1_InputOrder ==
  (Returned /\ progress_callback = "none") =>
    /\ Len(ret) = Len(logs)
    /\ \A i \in 1..Len(logs) :
         /\ ret[i].source = logs[i].source
         /\ ret[i].message = logs[i].message

\* C2: the returned list has exactly N elements and holds exactly one result
\* for every input record: none is dropped, none appears twice.
C2_ExactlyOneResult ==
  Returned =>
    /\ Len(ret) = Len(logs)
    /\ \A p \in 1..Len(logs) : Cardinality(PlacesOf(ret, p)) = 1

\* ceil(n / b), as the least m with m * b >= n.
CeilDiv(n, b) == CHOOSE m \in 0..n : m * b >= n /\ (m - 1) * b < n

RECURSIVE Flatten(_)
Flatten(ss) ==
  IF ss = << >> THEN << >>
  ELSE Flatten(SubSeq(ss, 1, Len(ss) - 1)) \o ss[Len(ss)]

\* C3: for N >= 1 records the scheduler submits exactly ceil(N/B) chunks,
\* contiguous slices of the input taken in order, none empty, each of at
\* most B records, all but the last of exactly B, whose concatenation is the
\* input list.
C3_Chunking ==
  (pc = "collecting" \/ (Returned /\ logs # << >>)) =>
    /\ Len(batches) = CeilDiv(Len(logs), batch_size)
    /\ DOMAIN status = 1..CeilDiv(Len(logs), batch_size)
    /\ \A c \in 1..Len(batches) :
         /\ Len(batches[c]) \in 1..batch_size
         /\ c < Len(batches) => Len(batches[c]) = batch_size
         /\ \A k \in 1..Len(batches[c]) :
              /\ (c - 1) * batch_size + k <= Len(logs)
              /\ batches[c][k] = logs[(c - 1) * batch_size + k]
    /\ Flatten(batches) = logs

C3_Witness ==
  /\ Returned
  /\ Len(batches) = 2
  /\ batches[1] # batches[2]

IsEmbeddingCall(name) == name \in {"bert_batch", "bert"}

\* C4: on every path a LegacyCRM record is passed to the remote classifier
\* only; any other record is never passed to the remote classifier, is
\* passed to the pattern classifier first, and is passed to the embedding
\* classifier only after a pattern call, when the pattern classifier has no
\* match for it.
C4_Routing ==
  \A p \in 1..Len(logs) :
    IF logs[p].source = "LegacyCRM"
      THEN \A i \in 1..Len(calls[p]) : calls[p][i] = "llm"
      ELSE /\ \A i \in 1..Len(calls[p]) : calls[p][i] # "llm"
           /\ calls[p] # << >> => calls[p][1] = "regex"
           /\ \A i \in 1..Len(calls[p]) :
                IsEmbeddingCall(calls[p][i]) =>
                  /\ i > 1
                  /\ calls[p][i - 1] = "regex"
                  /\ logs[p].message # BackupText
                  /\ logs[p].message # NotAString

\* Both paths of the routing have run: a LegacyCRM record went through the
\* single-record fallback and another record through pattern and embedding.
C4_Witness ==
  /\ Returned
  /\ model_loader = "fails"
  /\ \E p, q \in 1..Len(logs) :
       /\ logs[p].source = "LegacyCRM"
       /\ calls[p] = << "llm" >>
       /\ logs[q].source # "LegacyCRM"
       /\ calls[q] = << "regex", "bert" >>

\* C5: every result of the returned list, the fallback results of a failed
\* chunk included, has a severity in 1..10 that is calculate_severity of its
\* own label and confidence.
C5_SeverityOfResults ==
  Returned =>
    \A i \in 1..Len(ret) :
      /\ ret[i].severity_score \in 1..10
      /\ ret[i].severity_score =
           calculate_severity(ret[i].classification, ret[i].confidence_score)

\* A returned list with a fallback result of a failed chunk and a result
\* whose confidence lowers the severity.
C5_Witness ==
  /\ Returned
  /\ \E i, j \in 1..Len(ret) :
       /\ ret[i].method = Absent
       /\ ret[j].confidence_score # None
       /\ ret[j].confidence_score < 60

\* The table of the claim, with and without the label the claim leaves out.
ClaimedBase(label, with_deprecation) ==
  CASE label = "Security Alert" -> 9
    [] label = "Critical Error" -> 8
    [] label = "Workflow Error" -> 7
    [] label = "System Notification" -> 6
    [] label = "HTTP Status" -> 4
    [] label = "Resource Usage" -> 3
    [] label = "User Action" -> 2
    [] label = "Unclassified" -> 1
    [] label = "Deprecation Warning" /\ with_deprecation -> 2
    [] OTHER -> 1

ClaimedSeverity(label, confidence, with_deprecation) ==
  LET base == ClaimedBase(label, with_deprecation)
  IN  IF confidence # None /\ confidence > 90
        THEN (IF base + 1 > 10 THEN 10 ELSE base + 1)
      ELSE IF confidence # None /\ confidence < 60
        THEN (IF base - 1 < 1 THEN 1 ELSE base - 1)
      ELSE base

SevAgrees(with_deprecation) ==
  /\ sev.high_performance # None =>
       sev.high_performance =
         ClaimedSeverity(sev.classification, sev.confidence_score, with_deprecation)
  /\ sev.enhanced # None =>
       sev.enhanced =
         ClaimedSeverity(sev.classification, sev.confidence_score, with_deprecation)
  /\ (sev.high_performance # None /\ sev.enhanced # None) =>
       sev.high_performance = sev.enhanced

\* C6 as claimed: calculate_severity is the table value of the label
\* (Security Alert 9, Critical Error 8, Workflow Error 7, System Notification
\* 6, HTTP Status 4, Resource Usage 3, User Action 2, Unclassified 1, any
\* other label 1), plus 1 capped at 10 above 0.9, minus 1 floored at 1 below
\* 0.6, unchanged otherwise, and both processors compute the same value.
C6_Original == SevAgrees(FALSE)

\* C6 as amended: the same, with the table entry Deprecation Warning 2.
C6_SeverityTable == SevAgrees(TRUE)

\* Both processors have scored the label the claim's table leaves out.
C6_Witness ==
  /\ sev.classification = "Deprecation Warning"
  /\ sev.confidence_score = 91
  /\ sev.high_performance = 3
  /\ sev.enhanced = 3

\* The records of chunk c that make up its embedding group: not LegacyCRM and
\* without a pattern match.
InEmbeddingGroup(c, k) ==
  /\ batches[c][k].source # "LegacyCRM"
  /\ batches[c][k].message = ServerText

\* The batched embedding call of chunk c was made and raised.
BatchCallRaised(c) == Finished(c) /\ future[c].oracle.batch_raise

RemoteCallRaised(c, k) ==
  /\ Finished(c)
  /\ k \in 1..Len(batches[c])
  /\ future[c].oracle.llm[k] = Raise

ModelsLoaded == model_loader # "fails"

\* What classify_log_batch returns for chunk c when the remote call for
\* record k returns a label and everything else goes as it went.
HadItNotFailed(c, k) ==
  classify_log_batch(batches[c], ModelsLoaded,
                     [future[c].oracle EXCEPT !.llm[k] = "Security Alert"]).results

OthersUntouched(c, k) ==
  LET alt == HadItNotFailed(c, k)
  IN  /\ Len(alt) = Len(future[c].results)
      /\ \A j \in 1..Len(alt) :
           alt[j].pos # k => future[c].results[j] = At(alt[j], Offset(c) + alt[j].pos)

C9_ChunkFailure ==
  (Returned /\ progress_callback = "none") =>
    \A c \in Chunks :
      future[c].raised =>
        /\ \A p \in PositionsOf(c) :
             /\ Cardinality(PlacesOf(ret, p)) = 1
             /\ \A i \in PlacesOf(ret, p) :
                  /\ ret[i].classification = "Unclassified"
                  /\ ret[i].method = "error"
        /\ \A d \in Chunks :
             ~future[d].raised =>
               \A p \in PositionsOf(d) : PlacesOf(ret, p) # {}

ReportsWellFormed ==
  /\ \A i \in 1..Len(reports) :
       /\ reports[i][2] = Len(logs)
       /\ reports[i][1] <= Len(logs)
  /\ \A i \in 1..(Len(reports) - 1) : reports[i][1] <= reports[i + 1][1]

FinalReportOnce ==
  /\ Cardinality({ i \in 1..Len(reports) : reports[i] = << Len(logs), Len(logs) >> }) = 1
  /\ reports[Len(reports)] = << Len(logs), Len(logs) >>

\* C10 as claimed: with a progress observer and no failed chunk, every report
\* has total N, completed never decreases and never exceeds N, and (N, N) is
\* reported exactly once, as the last report.
C10_Original ==
  /\ (progress_callback # "none" /\ NoChunkFailed) => ReportsWellFormed
  /\ (Returned /\ progress_callback # "none" /\ NoChunkFailed) => FinalReportOnce

\* C10 as amended: the same for N >= 1; for N = 0 no report is made.
C10_Progress ==
  /\ (progress_callback # "none" /\ NoChunkFailed) => ReportsWellFormed
  /\ (Returned /\ progress_callback # "none" /\ NoChunkFailed /\ Len(logs) >= 1) =>
       FinalReportOnce
  /\ Len(logs) = 0 => reports = << >>

\* A run of two chunks has returned with both reports made.
C10_Witness ==
  /\ Returned
  /\ progress_callback = "returns"
  /\ NoChunkFailed
  /\ reports = << << 1, 2 >>, << 2, 2 >> >>

\* What is left to do before process_batch_parallel returns: the submission,
\* two steps for a batch not yet run (run it, collect it), one for a batch
\* run and not yet collected, and the return.
Remaining ==
  CASE pc = "start" -> 2 * Len(logs) + 2
    [] pc = "collecting" ->
         1 + 2 * Cardinality({ c \in Chunks : status[c] \in {"queued", "running"} })
           + Cardinality({ c \in Chunks : status[c] = "done" })
    [] OTHER -> 0

\* Some step of the scheduler can be taken: the guard of Submit, of
\* FinishChunk (with an outcome for the classifier calls of the batch: each
\* call returns or raises), of Collect and of Return.
CanStep ==
  \/ pc = "start"
  \/ /\ pc = "collecting"
     /\ \/ \E c \in Chunks : status[c] = "running" /\ Oracles(batches[c], initialized) # {}
        \/ \E c \in Chunks : status[c] = "done"
        \/ \A c \in Chunks : status[c] = "collected"

\* C11: for every input and every mix of batches that succeed and batches
\* that fail, process_batch_parallel returns, given that every classifier
\* call returns or raises: until it has returned some step of the scheduler
\* can be taken (it never waits on a batch that no thread will run or
\* finish), and every step brings the return nearer, so the steps cannot go
\* on for ever.
C11_Terminates ==
  /\ [](Returned \/ CanStep)
  /\ [][Remaining' < Remaining]_vars

\* A run has returned in which one batch failed and another succeeded.
C11_Witness ==
  /\ Returned
  /\ \E c \in Chunks : future[c].raised
  /\ \E c \in Chunks : ~future[c].raised

\* The threads of a kind started by the iteration for position k.
StartedFor(target, k) ==
  { t \in DOMAIN tasks : tasks[t].target = target /\ tasks[t].started_for = k }

\* The threads that have passed a dict to their integration.
HasRun(t) == tasks[t].state = "finished"

\* The dict p is the result r: the fields process_batch_parallel gave it.
SameResult(p, r) ==
  /\ p.source = r.source
  /\ p.message = r.message
  /\ p.classification = r.classification
  /\ p.confidence_score = r.confidence_score
  /\ p.method = r.method
  /\ p.index = r.index
  /\ p.severity_score = r.severity_score
  /\ p.error = r.error

LdReturned == ld_pc = "returned"

\* C12: with alerts enabled, each result of severity 8 or more gets one
\* alert, which is the alert for that result, and no alert is sent for a
\* result of severity below 8.
C12_AlertPerSevereResult ==
  enable_slack =>
    /\ \A k \in 1..loop_at :
         IF computed[k].severity_score >= 8
           THEN /\ Cardinality(StartedFor("send_alert_bg", k)) = 1
                /\ \A t \in StartedFor("send_alert_bg", k) :
                     HasRun(t) => SameResult(tasks[t].payload, computed[k])
           ELSE StartedFor("send_alert_bg", k) = {}
    /\ \A t \in DOMAIN tasks :
         (tasks[t].target = "send_alert_bg" /\ tasks[t].outcome \in {"sent", "failed"}) =>
           tasks[t].payload.severity_score >= 8

\* C13: with ticketing enabled, every result of severity 9 or more, and
\* every result whose label contains "Security" or "Critical" whatever its
\* severity, gets an incident-creation request.
C13_IncidentPerMarkedResult ==
  enable_jira =>
    \A k \in 1..loop_at :
      ( \/ computed[k].severity_score >= 9
        \/ ContainsSecurity(computed[k].classification)
        \/ ContainsCritical(computed[k].classification) ) =>
        StartedFor("create_incident_bg", k) # {}

\* C14: with notifications enabled, a run submits exactly one batch summary
\* when the list has 100 results or more or has five results or more of
\* severity 6 or more (those of severity 8 or more included).
C14_BatchSummary ==
  (enable_slack /\ ld_pc \in {"return", "returned"}) =>
    ( ( \/ Len(computed) >= 100
        \/ Cardinality({ k \in 1..Len(computed) : computed[k].severity_score >= 6 }) >= 5 ) =>
      Cardinality(StartedFor("send_batch_summary_bg", 0)) = 1 )

\* C15: once process_large_dataset has returned, no step of a background
\* thread adds, removes or changes a field of a result of the returned list.
C15_ResultsNotChanged == [][LdReturned => ret' = ret]_vars

\* The caller's thread can take a step.
CallerCanStep ==
  \/ ld_pc \in {"process", "store", "stats", "return"}
  \/ ld_pc = "notify" /\ loop_at <= Len(ret)

\* C16: whatever the alert, incident and summary submissions do, the call
\* goes on to return the full list; a result starts at most one alert and
\* at most one incident, a run at most one batch summary, and a submission
\* that has been made, failed or not, is not made again.
C16_FailuresStayInside ==
  /\ [](/\ LdReturned \/ CallerCanStep
        /\ ld_pc # "process" => Len(ret) = Len(computed)
        /\ \A k \in 1..Len(ret) : SameResult(ret[k], computed[k])
        /\ \A k \in 1..Len(ret) :
             /\ Cardinality(StartedFor("send_alert_bg", k)) <= 1
             /\ Cardinality(StartedFor("create_incident_bg", k)) <= 1
        /\ Cardinality(StartedFor("send_batch_summary_bg", 0)) <= 1)
  /\ [][\A t \in DOMAIN tasks : HasRun(t) => tasks'[t] = tasks[t]]_vars

\* The call has returned the list after an alert, an incident request and a
\* batch summary have each failed.
C16_Witness ==
  /\ LdReturned
  /\ Len(ret) = 6
  /\ \A target \in {"send_alert_bg", "create_incident_bg", "send_batch_summary_bg"} :
       \E t \in DOMAIN tasks : tasks[t].target = target /\ tasks[t].outcome = "failed"

\* C17: when the storage call fails, the call of process_large_dataset ends
\* with an error: it does not return normally.
C17_StorageErrorSurfaced == db.failed => ~LdReturned

\* C18: after a failed store_results_batch the list is as it was computed,
\* with the same length, order and field values; the store step changes no
\* result and passes no record to a classifier.
C18_StorageFailureKeepsResults ==
  /\ [](db.failed =>
          /\ ld_pc = "stats" => ret = computed
          /\ Len(ret) = Len(computed)
          /\ \A k \in 1..Len(ret) : SameResult(ret[k], computed[k]))
  /\ [][ld_pc = "store" => (ret' = ret /\ calls' = calls /\ pc' = pc)]_vars

\* The storage call has just failed for a list of results.
C18_Witness ==
  /\ db.failed
  /\ ld_pc = "stats"
  /\ Len(ret) >= 1
  /\ ret = computed

\* C19: in the batched embedding path a top probability below 0.55 gives
\* the label "Unclassified" and one of 0.55 or more gives the predicted
\* class; the confidence is the top probability in both cases; a top
\* probability of 0.4 gives "Unclassified" and severity 1.
C19_ConfidenceFloor ==
  emb.batched_done =>
    /\ Len(emb.batched) = Len(emb.texts)
    /\ \A k \in 1..Len(emb.batched) :
         LET r == emb.batched[k]
             p == max_prob(emb.texts[k].message)
         IN  /\ p < 55 => r.classification = "Unclassified"
             /\ p >= 55 => r.classification = predictions(emb.texts[k].message)
             /\ r.confidence_score = p
             /\ p = 40 => (r.classification = "Unclassified" /\ r.severity_score = 1)

\* The batched path has classified texts whose top probability is 0.4.
C19_Witness ==
  /\ emb.batched_done
  /\ svm_prob = 40
  /\ Len(emb.batched) = 2
  /\ emb.batched[1].classification = "Unclassified"
  /\ emb.batched[1].severity_score = 1

\* Both paths have classified the texts.
BothPaths == emb.batched_done /\ emb.single_done

C21_GlobalIndex ==
  \A k \in 1..Len(results) :
    results[k].index # None => IndexKey(results[k]) = results[k].pos - 1

\* The results a worker returned for batch c are in the input order of the
\* batch, one per record.
InBatchOrder(c) ==
  /\ Len(future[c].results) = Len(batches[c])
  /\ \A j \in 1..Len(future[c].results) : future[c].results[j].pos = Offset(c) + j

\* C22: classify_log_batch returns the results of a batch in the input order
\* of the batch on every path on which it returns: the path of the three
\* groups, the path where the batched embedding call raised and each record
\* went through the fallback, and the path without models.
C22_BatchOrder ==
  \A c \in Chunks : (Finished(c) /\ ~future[c].raised) => InBatchOrder(c)

\* A worker has returned the results of a batch whose first record went to
\* the remote classifier, the last group produced, and whose second record
\* was matched by a pattern, the first group produced.
C22_Witness ==
  \E c \in Chunks :
    /\ Finished(c)
    /\ ~future[c].raised
    /\ Len(future[c].results) = 2
    /\ future[c].results[1].method \in {"llm", "llm_error"}
    /\ future[c].results[2].method = "regex"

\* How many times record p of the input was passed to a classifier.
Count(p, name) == Cardinality({ i \in 1..Len(calls[p]) : calls[p][i] = name })

\* The calls of the embedding model made for chunk c: the batched call (one
\* call, recorded at every record it was given) and the single-item calls.
BatchedCalls(c) ==
  IF \E p \in PositionsOf(c) : Count(p, "bert_batch") > 0 THEN 1 ELSE 0

SingleCalls(c) ==
  Cardinality(UNION { { << p, i >> : i \in { j \in 1..Len(calls[p]) : calls[p][j] = "bert" } } :
                      p \in PositionsOf(c) })

\* C23 as claimed: with the models loaded the embedding model is invoked at
\* most once for a chunk.
C23_Original ==
  \A c \in Chunks :
    (Finished(c) /\ ModelsLoaded) => BatchedCalls(c) + SingleCalls(c) <= 1

\* C23 as amended: with the models loaded the unmatched records of a chunk
\* are given to the embedding model together, in one call and no record
\* twice; no single-item call is made unless that call raised, and then each
\* of those records is passed once more, alone, to bert_classify.
C23_OneBatchedCall ==
  \A c \in Chunks :
    (Finished(c) /\ ModelsLoaded) =>
      /\ \A p \in PositionsOf(c) : Count(p, "bert_batch") <= 1
      /\ \A k \in 1..Len(batches[c]) :
           ~InEmbeddingGroup(c, k) => /\ Count(Offset(c) + k, "bert_batch") = 0
                                      /\ Count(Offset(c) + k, "bert") = 0
      /\ ~future[c].raised =>
           \A k \in 1..Len(batches[c]) :
             InEmbeddingGroup(c, k) =>
               /\ Count(Offset(c) + k, "bert_batch") = 1
               /\ Count(Offset(c) + k, "bert") = (IF BatchCallRaised(c) THEN 1 ELSE 0)
      /\ ~BatchCallRaised(c) => SingleCalls(c) = 0

\* A worker has classified a chunk of two unmatched records with one batched
\* call and no single-item call.
C23_Witness ==
  \E c \in Chunks :
    /\ Finished(c)
    /\ ModelsLoaded
    /\ ~future[c].raised
    /\ ~BatchCallRaised(c)
    /\ Len(batches[c]) = 2
    /\ \A k \in 1..2 : InEmbeddingGroup(c, k) /\ Count(Offset(c) + k, "bert_batch") = 1
    /\ SingleCalls(c) = 0

InProgress == { c \in Chunks : status[c] = "running" }

\* The stages of a chunk, in the order the pool takes it through them.
Stage(st) == CASE st = "queued" -> 0 [] st = "running" -> 1 [] st = "done" -> 2 [] st = "collected" -> 3

\* C24: at every moment at most max_workers chunks are being classified,
\* and a chunk is started at most once: once running it is never queued
\* again and once done it never runs again.
C24_BoundedWorkers ==
  /\ [](Cardinality(InProgress) <= max_workers)
  /\ [][\A c \in Chunks : c \in DOMAIN status' => Stage(status'[c]) >= Stage(status[c])]_vars

\* There are more chunks than workers; a chunk that had to wait is running
\* in a full pool after an earlier one was done.
C24_Witness ==
  /\ max_workers < Len(batches)
  /\ Cardinality(InProgress) = max_workers
  /\ \E c \in Chunks : status[c] = "done"

\* The result chunk c computed for input position p.
ComputedFor(c, p) ==
  LET rs == WithSeverity(future[c].results)
  IN  rs[CHOOSE j \in 1..Len(rs) : rs[j].pos = p]

\* C27: when the progress observer raises while a chunk is reported,
\* process_batch_parallel still returns, and every record of that chunk is
\* in the returned list exactly once, with the classification its chunk
\* computed.
C27_CallbackRaiseKept ==
  (Returned /\ progress_callback = "raises") =>
    \A c \in Chunks :
      ~future[c].raised =>
        \A p \in PositionsOf(c) :
          /\ Cardinality(PlacesOf(ret, p)) = 1
          /\ \A i \in PlacesOf(ret, p) : ret[i] = ComputedFor(c, p)

\* C28: each background alert or incident task passes to its integration
\* the result whose loop round started it, never a later result, however
\* the loop and the tasks interleave.
C28_TaskSendsItsResult ==
  \A t \in DOMAIN tasks :
    (tasks[t].target \in {"send_alert_bg", "create_incident_bg"} /\ HasRun(t)) =>
      SameResult(tasks[t].payload, computed[tasks[t].started_for])

\* The threads that are between the start of a load and its end.
Loading == { t \in Threads : cache.at[t] \in {"load_bert", "load_svm", "set_initialized", "except"} }

\* A thread starts to load the models in this step.
StartsLoad(t) == cache.at[t] # "load_bert" /\ cache'.at[t] = "load_bert"

\* C25: under any interleaving of concurrent first uses of
\* initialize_models, no two threads load the models at the same time, no
\* load starts once a load has succeeded, and the models are initialized at
\* most once: exactly once when a load succeeds.
C25_OneInitialization ==
  /\ [](Cardinality(Loading) <= 1)
  /\ [](cache.loaded <= 1)
  /\ []((cache.loaded = 1) <=> initialized)
  /\ [][\A t \in Threads : StartsLoad(t) => (cache.loaded = 0 /\ cache.lock = t)]_vars

\* A thread has loaded the models and still holds the lock, while another,
\* which passed the check outside the lock before, waits for the lock.
C25_Witness ==
  \E t, u \in Threads :
    /\ cache.at[t] = "release"
    /\ cache.loaded = 1
    /\ cache.at[u] = "acquire"

\* The result list of classify_single_log_fallback applied to each record
\* of the batch in turn.
AllThroughFallback(out) ==
  /\ ~out.raised
  /\ Len(out.results) = Len(logs)
  /\ \A k \in 1..Len(logs) :
       LET single == classify_single_log_fallback(logs[k].source, logs[k].message,
                                                  Returning(logs).llm[k],
                                                  Returning(logs).single[k])
       IN  /\ out.results[k] = At(single.res, k)
           /\ out.calls[k] = single.calls

Apart(a, b) == IF a >= b THEN a - b ELSE b - a

\* C29: for any alert key at most one call passes should_send_alert within
\* one window of rate_limit_minutes, also when alert threads for the same
\* key run concurrently; a call that is denied leaves last_alert_time as it
\* was, and a call that is granted sets it for its key and no other.
C29_OneAlertPerWindow ==
  /\ [](\A i, j \in 1..Len(limiter.passed) :
          (i < j /\ limiter.passed[i].key = limiter.passed[j].key) =>
            Apart(limiter.passed[i].now, limiter.passed[j].now) >= rate_limit_minutes)
  /\ [][\A t \in Threads :
          /\ (limiter.at[t] = "check" /\ limiter'.at[t] = "denied") =>
               limiter'.last_alert_time = limiter.last_alert_time
          /\ (limiter.at[t] = "set" /\ limiter'.at[t] = "granted") =>
               limiter'.last_alert_time =
                 [limiter.last_alert_time EXCEPT ![limiter.key[t]] = limiter.now[t]]]_vars

\* C30: for an empty input list process_large_dataset returns an empty
\* list and has no other effect: no chunk is cut for the pool, the progress
\* observer is never called, the storage is never called, and no alert,
\* incident or summary thread is started.
C30_EmptyInputNoEffect ==
  logs = << >> =>
    /\ ret = << >>
    /\ batches = << >>
    /\ reports = << >>
    /\ db = NoDb
    /\ tasks = << >>

\* process_large_dataset has returned for an empty list, with an observer
\* given and storage, alerts and ticketing all switched on.
C30_Witness ==
  /\ logs = << >>
  /\ LdReturned
  /\ progress_callback = "returns"
  /\ store_in_db /\ use_database
  /\ enable_slack /\ enable_jira

====
